---- MODULE Spec2Model ----
(***************************************************************************)
(* django-tagging: the TagField descriptor (tagging/fields.py) and the     *)
(* tagging views (tagging/views.py).                                       *)
(*                                                                         *)
(* Python strings are sequences of one-character strings; None is the      *)
(* one-element sequence <<"None">>, which is no string of the alphabet.    *)
(* The tag store (tagging.models: Tag, TaggedItem) is a set of             *)
(* associations <<content type, object id, tag name>> plus the set of      *)
(* existing Tag rows.  A content type is named by its model class.         *)
(***************************************************************************)
EXTENDS Naturals, Integers, Sequences, FiniteSets, TLC

VARIABLES
    FORCE_LOWERCASE_TAGS, \* settings.FORCE_LOWERCASE_TAGS
    senders,              \* TagField.senders      (tuple of classes)
    not_senders,          \* TagField.not_senders  (tuple of classes)
    inst,                 \* the in-memory model instances: class and pk
    cache,                \* instance attribute _<attname>_cache
    items,                \* TaggedItem rows: <<content type, object id, tag name>>
    tags,                 \* Tag rows: the tag names that exist
    last                  \* the operation that ran last and what it returned/raised

vars == <<FORCE_LOWERCASE_TAGS, senders, not_senders, inst, cache, items, tags, last>>

----------------------------------------------------------------------------
(* Bounds *)

NumInst == 2     \* in-memory instances alive at once
MaxPk == 1       \* primary keys are 1..MaxPk

----------------------------------------------------------------------------
(* Python values *)

None == <<"None">>
NonePk == 0      \* instance.pk is None

Ord(c) == CASE c = " " -> 32 [] c = "B" -> 66 [] c = "a" -> 97 [] c = "b" -> 98

\* unicode.lower(), character by character
LowerChar(c) == IF c = "B" THEN "b" ELSE c
lower(s) == [k \in 1..Len(s) |-> LowerChar(s[k])]

\* s < t, as Python and the database order strings
RECURSIVE StrLess(_, _)
StrLess(s, t) ==
    IF t = <<>> THEN FALSE
    ELSE IF s = <<>> THEN TRUE
    ELSE IF Head(s) # Head(t) THEN Ord(Head(s)) < Ord(Head(t))
    ELSE StrLess(Tail(s), Tail(t))

\* the names of a set, in ascending order
SortNames(S) ==
    CHOOSE s \in [1..Cardinality(S) -> S] :
        \A j, k \in 1..Cardinality(S) : j < k => StrLess(s[j], s[k])

\* the strings a caller assigns to the field
TagStrings ==
    { <<>>,
      <<"b", " ", " ", "a", " ", "B">> }

Values == TagStrings \cup {None}

----------------------------------------------------------------------------
(* tagging.utils *)

\* split_strip(input, ' '): the non-empty words between the spaces
RECURSIVE split_strip(_, _)
split_strip(s, word) ==
    IF s = <<>> THEN (IF word = <<>> THEN {} ELSE {word})
    ELSE IF Head(s) = " "
         THEN (IF word = <<>> THEN {} ELSE {word}) \cup split_strip(Tail(s), <<>>)
         ELSE split_strip(Tail(s), Append(word, Head(s)))

\* parse_tag_input: the distinct tag names of a tag string ([] for '' and None)
parse_tag_input(input) ==
    IF input = None \/ input = <<>> THEN {} ELSE split_strip(input, <<>>)

\* ' '.join(names)
RECURSIVE join(_)
join(names) ==
    IF names = <<>> THEN <<>>
    ELSE IF Len(names) = 1 THEN Head(names)
    ELSE Head(names) \o <<" ">> \o join(Tail(names))

\* edit_string_for_tags: the names of the tags, as the query orders them, space-joined
edit_string_for_tags(tagset) == join(SortNames(tagset))

----------------------------------------------------------------------------
(* The class hierarchy: __bases__ of every class, in declaration order *)

cls == "Link"    \* self.cls: the class that declares the TagField

Classes == {"object", "Model", "Mixin", "Link", "Child", "GrandChild",
            "Mixed", "Mixed2", "Other"}

bases(c) ==
    CASE c = "object"     -> <<>>
      [] c = "Model"      -> <<"object">>
      [] c = "Mixin"      -> <<"object">>
      [] c = "Link"       -> <<"Model">>
      [] c = "Child"      -> <<"Link">>
      [] c = "GrandChild" -> <<"Child">>
      [] c = "Mixed"      -> <<"Mixin", "Link">>
      [] c = "Mixed2"     -> <<"Link", "Mixin">>
      [] c = "Other"      -> <<"Model">>

Range(s) == {s[k] : k \in 1..Len(s)}

\* issubclass(c, d): d is c or is reached from c through any base
RECURSIVE issubclass(_, _)
issubclass(c, d) ==
    c = d \/ \E b \in Range(bases(c)) : issubclass(b, d)

----------------------------------------------------------------------------
(* tagging.models: the tag store the field and the views call *)

\* ContentType.objects.get_for_model: one content type per model class
ContentType(model) == model

\* Tag.objects.get_for_object(obj): the tags of the associations of obj
get_for_object(obj) ==
    {a[3] : a \in {b \in items : b[1] = ContentType(obj.cls) /\ b[2] = obj.pk}}

\* Tag.objects.usage_for_model(model): the tags used on instances of model
usage_for_model(model) ==
    {a[3] : a \in {b \in items : b[1] = ContentType(model)}}

\* Tag.objects.update_tags(obj, tag_names, ctype): the associations of the
\* object become those of the parsed names; missing Tag rows are created
update_tags(obj, tag_names, ctype) ==
    LET parsed  == parse_tag_input(tag_names)
        updated == IF FORCE_LOWERCASE_TAGS THEN {lower(n) : n \in parsed} ELSE parsed
        kept    == {a \in items : ~(a[1] = ctype /\ a[2] = obj.pk)}
    IN  [items |-> kept \cup {<<ctype, obj.pk, n>> : n \in updated},
         tags  |-> tags \cup updated]

----------------------------------------------------------------------------
(* tagging/fields.py: TagField *)

Slots == 1..NumInst
NoInstance == [cls |-> "none", pk |-> NonePk]
ModelClasses == {"Link", "Child", "Mixed", "Other"}   \* the classes instantiated

InSeq(x, s) == \E k \in 1..Len(s) : s[k] = x
NoClass == "None"     \* orig=None

\* _is_sender(sender, orig) run on the memo (s, ns): the value returned and
\* the memo it leaves.  The for loop returns in its first iteration.
\* (mutant) every sender is taken for a class that has the field
_is_sender_always(sender, orig, s, ns) ==
    [ret |-> TRUE, senders |-> s, not_senders |-> ns]
\* (mutant) the memo collections are appended to without being looked up
_is_sender_no_lookup(sender, orig, s, ns) ==
    IF sender = cls
    THEN [ret |-> TRUE, senders |-> s, not_senders |-> ns]
    ELSE IF bases(sender) # <<>> /\ Head(bases(sender)) = cls
    THEN [ret |-> TRUE, senders |-> Append(s, sender), not_senders |-> ns]
    ELSE [ret |-> FALSE, senders |-> s, not_senders |-> Append(ns, sender)]
RECURSIVE _is_sender(_, _, _, _)
_is_sender(sender, orig, s, ns) ==
    IF sender = cls \/ InSeq(sender, s)
    THEN [ret |-> TRUE, senders |-> s, not_senders |-> ns]
    ELSE IF InSeq(sender, ns)
    THEN [ret |-> FALSE, senders |-> s, not_senders |-> ns]
    ELSE LET o == IF orig = NoClass THEN sender ELSE orig
         IN  IF bases(sender) = <<>>
             THEN [ret |-> FALSE, senders |-> s, not_senders |-> Append(ns, o)]
             ELSE LET base == Head(bases(sender))
                  IN  IF base = cls
                      THEN [ret |-> TRUE, senders |-> Append(s, sender),
                            not_senders |-> ns]
                      ELSE _is_sender(base, o, s, ns)

\* _get_ctype: always the content type of the declaring class
_get_ctype == ContentType(cls)

\* _get_instance_tag_cache: getattr(instance, '_tags_cache', None)
_get_instance_tag_cache(i) == cache[i]

\* (mutant) the cache kept on the field, which all instances share
_set_instance_tag_cache_shared(c, i, value) == [j \in DOMAIN c |-> value]

\* _set_instance_tag_cache: setattr on that one instance
_set_instance_tag_cache(c, i, value) == [c EXCEPT ![i] = value]

\* (mutant) the access on the class answered from the instances' caches
__get___from_caches(i, owner) ==
    IF i = 0
    THEN edit_string_for_tags(UNION {parse_tag_input(cache[j]) :
                                        j \in {k \in DOMAIN cache : inst[k].cls = owner}})
    ELSE _get_instance_tag_cache(i)

\* __get__(instance, owner): i = 0 is the access on the class
__get__(i, owner) ==
    IF i = 0 THEN edit_string_for_tags(usage_for_model(owner))
    ELSE _get_instance_tag_cache(i)

\* (mutant) the value stored as given, whatever the setting
__set___keeps_case(c, i, value) ==
    IF i = 0 THEN [raised |-> "AttributeError", cache |-> c]
    ELSE [raised |-> "none", cache |-> _set_instance_tag_cache(c, i, value)]

\* (mutant) no check of the instance
__set___no_check(c, i, value) == [raised |-> "none", cache |-> c]

\* __set__(instance, value) on the caches c: what it raises and the caches it leaves
__set__(c, i, value) ==
    IF i = 0 THEN [raised |-> "AttributeError", cache |-> c]
    ELSE LET v == IF FORCE_LOWERCASE_TAGS /\ value # None THEN lower(value) ELSE value
         IN  [raised |-> "none", cache |-> _set_instance_tag_cache(c, i, v)]

\* _update_instance_tag_cache(instance) on the caches c
_update_instance_tag_cache(c, i, obj) ==
    IF obj.pk # NonePk
    THEN _set_instance_tag_cache(c, i, edit_string_for_tags(get_for_object(obj)))
    ELSE c

\* _update(sender, instance): the post_init receiver
_update(c, i, obj) == _update_instance_tag_cache(c, i, obj)

\* _save(sender, instance): the post_save receiver
_save(sender, i, obj) ==
    LET r == _is_sender(sender, NoClass, senders, not_senders)
        u == update_tags(obj, _get_instance_tag_cache(i), _get_ctype)
    IN  [senders |-> r.senders, not_senders |-> r.not_senders, sent |-> r.ret,
         items |-> IF r.ret THEN u.items ELSE items,
         tags  |-> IF r.ret THEN u.tags ELSE tags]

\* __delete__(sender, instance): the pre_delete receiver
__delete__(obj) == update_tags(obj, <<>>, _get_ctype)

\* contribute_to_class: which senders each receiver is connected for
post_save_connected(sender) == TRUE
post_init_connected(sender) == sender = cls
pre_delete_connected(sender) == sender = cls

\* the descriptor is a class attribute of the declaring class, which every
\* class deriving from it inherits
HasField(c) == issubclass(c, cls)

----------------------------------------------------------------------------
(* Operations *)

\* Model.__init__: the field's value (the one supplied, or the default '')
\* is set through the descriptor, then post_init is sent
Construct(i, c, pk, value) ==
    LET obj == [cls |-> c, pk |-> pk]
        c1  == IF HasField(c) THEN __set__(cache, i, value).cache
               ELSE [cache EXCEPT ![i] = None]
        c2  == IF post_init_connected(c) THEN _update(c1, i, obj) ELSE c1
    IN  /\ inst' = [inst EXCEPT ![i] = obj]
        /\ cache' = c2
        /\ last' = [op |-> "init", inst |-> i, arg |-> value]
        /\ UNCHANGED <<FORCE_LOWERCASE_TAGS, senders, not_senders, items, tags>>

\* instance.tags = value
Assign(i, value) ==
    /\ inst[i] # NoInstance
    /\ HasField(inst[i].cls)
    /\ cache' = __set__(cache, i, value).cache
    /\ last' = [op |-> "set", inst |-> i, arg |-> value]
    /\ UNCHANGED <<FORCE_LOWERCASE_TAGS, senders, not_senders, inst, items, tags>>

\* Model.tags = value: the descriptor is called with no instance
ClassAssign(value) ==
    LET r == __set__(cache, 0, value)
    IN  /\ cache' = r.cache
        /\ last' = [op |-> "class_set", inst |-> 0, arg |-> r.raised]
        /\ UNCHANGED <<FORCE_LOWERCASE_TAGS, senders, not_senders, inst, items, tags>>

\* instance.save(): the row is written (a new row gets its pk), then
\* post_save is sent with the instance's class as sender
Save(i, newpk) ==
    /\ inst[i] # NoInstance
    /\ LET obj == [inst[i] EXCEPT !.pk = IF @ = NonePk THEN newpk ELSE @]
           r   == IF post_save_connected(obj.cls)
                  THEN _save(obj.cls, i, obj)
                  ELSE [senders |-> senders, not_senders |-> not_senders,
                        sent |-> FALSE, items |-> items, tags |-> tags]
       IN  /\ inst' = [inst EXCEPT ![i] = obj]
           /\ senders' = r.senders
           /\ not_senders' = r.not_senders
           /\ items' = r.items
           /\ tags' = r.tags
           /\ last' = [op |-> "save", inst |-> i, arg |-> r.sent]
    /\ UNCHANGED <<FORCE_LOWERCASE_TAGS, cache>>

\* instance.delete(): pre_delete is sent with the instance's class as sender,
\* the row is removed and the instance's pk is cleared.  (Where the ORM also
\* deletes the row of a parent model, that is the Delete of an instance of
\* the parent class; a proxy model has no such row.)
Delete(i) ==
    /\ inst[i] # NoInstance
    /\ inst[i].pk # NonePk
    /\ LET obj == inst[i]
           r   == IF pre_delete_connected(obj.cls) THEN __delete__(obj)
                  ELSE [items |-> items, tags |-> tags]
       IN  /\ items' = r.items
           /\ tags' = r.tags
           /\ inst' = [inst EXCEPT ![i].pk = NonePk]
           /\ last' = [op |-> "delete", inst |-> i, arg |-> obj.pk]
    /\ UNCHANGED <<FORCE_LOWERCASE_TAGS, senders, not_senders, cache>>

\* associations other code of the project has stored for an unrelated model
InitItems == { {} }

Init ==
    /\ FORCE_LOWERCASE_TAGS \in BOOLEAN
    /\ senders = <<>>
    /\ not_senders = <<>>
    /\ inst = [i \in Slots |-> NoInstance]
    /\ cache = [i \in Slots |-> None]
    /\ items \in InitItems
    /\ tags = {a[3] : a \in items}
    /\ last = [op |-> "start", inst |-> 0, arg |-> None]

Next ==
    \/ \E i \in Slots, c \in ModelClasses, pk \in 0..MaxPk, v \in TagStrings :
          Construct(i, c, pk, v)
    \/ \E i \in Slots, v \in Values : Assign(i, v)
    \/ \E v \in Values : ClassAssign(v)
    \/ \E i \in Slots, p \in 1..MaxPk : Save(i, p)
    \/ \E i \in Slots : Delete(i)

Spec == Init /\ [][Next]_vars

----------------------------------------------------------------------------
(* _is_sender on its own: post_save is connected for every sender, so the   *)
(* save of any model of the project calls it with that model's class.       *)

IsSenderCall(c) ==
    LET r == _is_sender(c, NoClass, senders, not_senders)
    IN  /\ senders' = r.senders
        /\ not_senders' = r.not_senders
        /\ last' = [op |-> "is_sender", inst |-> 0, arg |-> [cls |-> c, ret |-> r.ret]]
        /\ UNCHANGED <<FORCE_LOWERCASE_TAGS, inst, cache, items, tags>>

NextSender == \E c \in Classes : IsSenderCall(c)

SpecSender == Init /\ [][NextSender]_vars

----------------------------------------------------------------------------
(* tagging/views.py *)

MaxObj == 2      \* object ids of the listed models are 1..MaxObj

ViewTags == {<<"a">>, <<"b">>}            \* tag names that may exist
ViewModels == {"Link", "Other"}

\* tagging.utils.get_tag: the Tag of that name, None when there is none
get_tag(tag) == IF tag \in tags THEN tag ELSE None

\* TaggedItem.objects.get_by_model: the objects of the model that bear the tag
get_by_model(queryset_or_model, tag_instance) ==
    {a[2] : a \in {b \in items : b[1] = ContentType(queryset_or_model)
                                 /\ b[3] = tag_instance}}

\* Tag.objects.related_for_model: the other tags of the objects of the model
\* that bear the tag, each with the number of those objects when counts is set
related_for_model(tag_instance, queryset_or_model, counts) ==
    LET objs == get_by_model(queryset_or_model, tag_instance)
        rel  == {a[3] : a \in {b \in items : /\ b[1] = ContentType(queryset_or_model)
                                             /\ b[2] \in objs
                                             /\ b[3] # tag_instance}}
        n(t) == Cardinality({o \in objs :
                    <<ContentType(queryset_or_model), o, t>> \in items})
    IN  {[tag |-> t, count |-> IF counts THEN n(t) ELSE 0] : t \in rel}

\* A dict is a record: the set of the keys it holds, and one field per key
\* that may occur (a filler where the key is absent)
EmptyContext == [keys |-> {}, title |-> None, tag |-> None, related_tags |-> {}]
EmptyDict ==
    [keys |-> {}, queryset_or_model |-> NoClass, tag |-> None,
     extra_context |-> EmptyContext]

Has(d, k) == k \in d.keys
Pop(d, k) == [d EXCEPT !.keys = @ \ {k}, ![k] = EmptyDict[k]]
\* (mutant) dict.setdefault: an entry the dict holds is kept
Put_setdefault(d, k, v) ==
    IF k \in d.keys THEN d ELSE [d EXCEPT !.keys = @ \cup {k}, ![k] = v]
Put(d, k, v) == [d EXCEPT !.keys = @ \cup {k}, ![k] = v]

Raise(exc, msg, calls) ==
    [raised |-> exc, msg |-> msg, calls |-> calls,
     queryset |-> {}, kwargs |-> EmptyDict]

\* lines 33-37: no target, positional or keyword
missing_target_never(queryset_or_model, kwargs) == FALSE
missing_target(queryset_or_model, kwargs) ==
    queryset_or_model = NoClass /\ ~Has(kwargs, "queryset_or_model")

\* lines 39-43: no tag, positional or keyword
missing_tag(tag, kwargs) == tag = None /\ ~Has(kwargs, "tag")

\* lines 46-47: the tag did not resolve
not_found_never(tag_instance) == FALSE
not_found(tag_instance) == tag_instance = None

\* tagged_object_list(request, queryset_or_model, tag, related_tags,
\* related_tag_counts, **kwargs): what it raises, the calls it makes on the
\* tag store and the renderer, and what object_list is called with
tagged_object_list(queryset_or_model, tag, related_tags, related_tag_counts, kwargs) ==
    IF missing_target(queryset_or_model, kwargs)
    THEN Raise("AttributeError", "must be called with a queryset or a model", <<>>)
    ELSE
    LET qom == IF queryset_or_model = NoClass THEN kwargs["queryset_or_model"]
               ELSE queryset_or_model
        kw1 == IF queryset_or_model = NoClass THEN Pop(kwargs, "queryset_or_model")
               ELSE kwargs
    IN
    IF missing_tag(tag, kw1)
    THEN Raise("AttributeError", "must be called with a tag", <<>>)
    ELSE
    LET tg  == IF tag = None THEN kw1["tag"] ELSE tag
        kw2 == IF tag = None THEN Pop(kw1, "tag") ELSE kw1
        tag_instance == get_tag(tg)
    IN
    IF not_found(tag_instance)
    THEN Raise("Http404", "No Tag found matching", <<"get_tag">>)
    ELSE
    LET queryset == get_by_model(qom, tag_instance)
        ec0 == IF Has(kw2, "extra_context") THEN kw2["extra_context"] ELSE EmptyContext
        ec1 == Put(ec0, "tag", tag_instance)
        ec2 == IF related_tags
               THEN Put(ec1, "related_tags",
                        related_for_model(tag_instance, qom, related_tag_counts))
               ELSE ec1
    IN  [raised |-> "none", msg |-> "",
         calls |-> <<"get_tag", "get_by_model">>
                   \o (IF related_tags THEN <<"related_for_model">> ELSE <<>>)
                   \o <<"object_list">>,
         queryset |-> queryset,
         kwargs |-> Put(kw2, "extra_context", ec2)]

\* the keyword arguments of a request: any of the two named arguments and
\* an extra_context
ExtraContexts ==
    { EmptyContext,
      Put(EmptyContext, "title", <<"a">>),
      Put(EmptyContext, "tag", <<"b">>),
      Put(EmptyContext, "related_tags", {[tag |-> <<"b">>, count |-> MaxObj + 1]}) }

\* no extra_context keyword
NoContext == [EmptyContext EXCEPT !.keys = {"(absent)"}]

KwargsOf(q, t, e) ==
    LET k1 == IF q = NoClass THEN EmptyDict ELSE Put(EmptyDict, "queryset_or_model", q)
        k2 == IF t = None THEN k1 ELSE Put(k1, "tag", t)
    IN  IF e = NoContext THEN k2 ELSE Put(k2, "extra_context", e)

\* a call: the two named arguments, each given positionally, by keyword
\* (when the positional one is None) or not at all, and the other keywords
Requests ==
    { [queryset_or_model |-> q, tag |-> t, kwargs |-> KwargsOf(qk, tk, e)] :
        q \in {NoClass} \cup ViewModels, qk \in {NoClass, "Link"},
        t \in {None, <<"a">>, <<"B">>}, tk \in {None, <<"a">>},
        e \in {NoContext} \cup ExtraContexts }

ValidRequest(r) ==
    /\ r.queryset_or_model # NoClass => ~Has(r.kwargs, "queryset_or_model")
    /\ r.tag # None => ~Has(r.kwargs, "tag")

\* related_tag_counts is read only when related_tags is set
Flags == {<<FALSE, TRUE>>, <<TRUE, TRUE>>, <<TRUE, FALSE>>}

TaggedObjectList(queryset_or_model, tag, related_tags, related_tag_counts, kwargs) ==
    /\ last' = [op |-> "tagged_object_list", inst |-> 0,
                arg |-> [queryset_or_model |-> queryset_or_model, tag |-> tag,
                         related_tags |-> related_tags,
                         related_tag_counts |-> related_tag_counts,
                         kwargs |-> kwargs],
                out |-> tagged_object_list(queryset_or_model, tag, related_tags,
                                           related_tag_counts, kwargs)]
    /\ UNCHANGED <<FORCE_LOWERCASE_TAGS, senders, not_senders, inst, cache, items, tags>>

\* the stores the views may find: any associations of the listed models,
\* every tag in use being an existing Tag
ViewAssociations ==
    {<<ContentType("Link"), o, t>> : o \in 1..MaxObj, t \in ViewTags}
        \cup {<<ContentType("Other"), 1, <<"a">>>>}

InitView ==
    /\ FORCE_LOWERCASE_TAGS = FALSE
    /\ senders = <<>>
    /\ not_senders = <<>>
    /\ inst = [i \in Slots |-> NoInstance]
    /\ cache = [i \in Slots |-> None]
    /\ items \in SUBSET ViewAssociations
    /\ tags \in {T \in SUBSET ViewTags : \A a \in items : a[3] \in T}
    /\ last = [op |-> "start", inst |-> 0, arg |-> None]

NextView ==
    \E r \in {x \in Requests : ValidRequest(x)}, f \in Flags :
        TaggedObjectList(r.queryset_or_model, r.tag, f[1], f[2], r.kwargs)

SpecView == InitView /\ [][NextView]_vars

----------------------------------------------------------------------------
(* tagging.views.tags_for_object *)

MaxItems == 6    \* object ids of the summarised models are 1..MaxItems
SampleSize == 5  \* the slice [:5] of each tag's items

ItemIds == 1..MaxItems

\* the rows of a model's table
objects(model) == ItemIds

\* Tag.objects.filter(items__content_type=ctype).distinct()
tags_filter_distinct(ctype) ==
    {t \in tags : \E a \in items : a[1] = ctype /\ a[3] = t}

\* (mutant) Count('items') over every content type
items__count_any_ctype(ctype, tag) ==
    Cardinality({a \in items : a[3] = tag})
\* annotate(Count('items')) after the filter: the tagged items of the
\* filtered join are counted
items__count(ctype, tag) ==
    Cardinality({a \in items : a[1] = ctype /\ a[3] = tag})

Pos(s, x) == CHOOSE k \in 1..Len(s) : s[k] = x

\* the elements of S as a sequence in the order of their ranks
RECURSIVE order_by_rank(_, _)
order_by_rank(S, rank) ==
    IF S = {} THEN <<>>
    ELSE LET m == CHOOSE x \in S : \A y \in S : rank[x] <= rank[y]
         IN  <<m>> \o order_by_rank(S \ {m}, rank)

\* order_by('-items__count'): most used first; the database leaves the order
\* of equally used tags open, tie is the order it takes for them
order_by_count(T, ctype, tie) ==
    order_by_rank(T, [t \in T |->
        (MaxItems - items__count(ctype, t)) * (Len(tie) + 1) + Pos(tie, t)])

\* QuerySet.order_by(order_by): '?' is the random order rnd of the database
order_by_items(S, order_by, rnd) ==
    order_by_rank(S, [o \in S |->
        CASE order_by = "id" -> o
          [] order_by = "-id" -> MaxItems - o
          [] OTHER -> Pos(rnd, o)])

\* (mutant) the whole query, not sliced
Slice_all(s, n) == s
\* s[:n]
Slice(s, n) == IF Len(s) <= n THEN s ELSE SubSeq(s, 1, n)

\* TaggedItem.objects.filter(content_type=ctype, tag=tag).values('object_id')
object_ids(ctype, tag) == {a[2] : a \in {b \in items : b[1] = ctype /\ b[3] = tag}}

EmptyTagContext == [keys |-> {}, tag_info |-> <<>>, title |-> None]

\* dict(d, **extra): the entries of extra replace those of d
Merge(d, extra) ==
    [keys |-> d.keys \cup extra.keys,
     tag_info |-> IF "tag_info" \in extra.keys THEN extra.tag_info ELSE d.tag_info,
     title |-> IF "title" \in extra.keys THEN extra.title ELSE d.title]

tags_for_object(model, order_by, extra_context, rnd, tie) ==
    LET ctype == ContentType(model)
        ti == order_by_count(tags_filter_distinct(ctype), ctype, tie)
        tag_info == [k \in 1..Len(ti) |->
            [tag |-> ti[k],
             count |-> items__count(ctype, ti[k]),
             items |-> Slice(order_by_items(
                           objects(model) \cap object_ids(ctype, ti[k]),
                           order_by, rnd), SampleSize)]]
    IN  [tag_info |-> tag_info,
         context |-> Merge([EmptyTagContext EXCEPT !.keys = {"tag_info"},
                                                  !.tag_info = tag_info],
                           extra_context),
         calls |-> <<"render_to_response">>]

\* the orders the model draws a random order from: the rotations of the ids
\* and their reversals (every id is left out of the first SampleSize by one)
Rotation(k) == [j \in ItemIds |-> ((j + k - 1) % MaxItems) + 1]
Reverse(s) == [j \in 1..Len(s) |-> s[Len(s) + 1 - j]]
RandomOrders ==
    {Rotation(k) : k \in ItemIds} \cup {Reverse(Rotation(k)) : k \in ItemIds}
TieOrders == {<<<<"a">>, <<"b">>>>, <<<<"b">>, <<"a">>>>}
OrderBys == {"?", "id", "-id"}
TagContexts ==
    { EmptyTagContext,
      [EmptyTagContext EXCEPT !.keys = {"title"}, !.title = <<"a">>],
      [EmptyTagContext EXCEPT !.keys = {"tag_info"}] }

TagsForObject(model, order_by, extra_context, rnd, tie) ==
    /\ last' = [op |-> "tags_for_object", inst |-> 0,
                arg |-> [model |-> model, order_by |-> order_by,
                         extra_context |-> extra_context],
                out |-> tags_for_object(model, order_by, extra_context, rnd, tie)]
    /\ UNCHANGED <<FORCE_LOWERCASE_TAGS, senders, not_senders, inst, cache,
                   items, tags>>

\* stores for the summary: any associations of the first two objects of Link
\* and of one object of Other, and Link objects 3..k holding "a"
TagAssociations ==
    {<<ContentType("Link"), o, t>> : o \in 1..2, t \in ViewTags}
        \cup {<<ContentType("Other"), 1, <<"a">>>>}
ManyAssociations(k) == {<<ContentType("Link"), o, <<"a">>>> : o \in 3..k}

InitTags ==
    /\ FORCE_LOWERCASE_TAGS = FALSE
    /\ senders = <<>>
    /\ not_senders = <<>>
    /\ inst = [i \in Slots |-> NoInstance]
    /\ cache = [i \in Slots |-> None]
    /\ \E A \in SUBSET TagAssociations, k \in 2..MaxItems :
          items = A \cup ManyAssociations(k)
    /\ tags = ViewTags
    /\ last = [op |-> "start", inst |-> 0, arg |-> None]

NextTags ==
    \E model \in ViewModels, order_by \in OrderBys, e \in TagContexts,
       tie \in TieOrders :
        \E rnd \in IF order_by = "?" THEN RandomOrders ELSE {Rotation(MaxItems)} :
            TagsForObject(model, order_by, e, rnd, tie)

SpecTags == InitTags /\ [][NextTags]_vars

----------------------------------------------------------------------------
(* Properties *)

LastInst == inst[last.inst]

\* the tags stored for an object under the content type the handlers pass
PersistedTags(obj) ==
    {a[3] : a \in {b \in items : b[1] = _get_ctype /\ b[2] = obj.pk}}

\* the string __set__ keeps for an assigned value
Stored(value) ==
    IF FORCE_LOWERCASE_TAGS /\ value # None THEN lower(value) ELSE value

\* C1: right after the save of an instance of the declaring class or of a
\* class descending from it, the tags persisted for the instance are exactly
\* the names parsed from the tag string the instance holds.
C1_SavePersistsParsedTags ==
    (last.op = "save" /\ issubclass(LastInst.cls, cls))
        => PersistedTags(LastInst) = parse_tag_input(cache[last.inst])

\* C2: right after the delete of an instance of the declaring class, or of a
\* descendant whose tags are saved, no association is left for the instance.
C2_DeleteRemovesAssociations ==
    (/\ last.op = "delete"
     /\ issubclass(LastInst.cls, cls)
     /\ _is_sender(LastInst.cls, NoClass, senders, not_senders).ret)
        => \A a \in items :
              ~(a[2] = last.arg /\ a[1] \in {_get_ctype, ContentType(LastInst.cls)})

\* C3: right after instance.tags = s, reading instance.tags gives s, or
\* lower(s) when FORCE_LOWERCASE_TAGS is set; None reads back as None.
C3_SetThenGet ==
    last.op = "set"
        => __get__(last.inst, LastInst.cls) =
              (IF last.arg = None THEN None
               ELSE IF FORCE_LOWERCASE_TAGS THEN lower(last.arg) ELSE last.arg)

C3_Witness ==
    /\ last.op = "set"
    /\ FORCE_LOWERCASE_TAGS
    /\ last.arg # None
    /\ lower(last.arg) # last.arg
    /\ cache[last.inst] = lower(last.arg)

\* C4: an assignment changes the cache of the assigned instance only: the
\* tag store and the cache of every other instance stay as they were.
C4_AssignChangesOneCache ==
    [][last'.op = "set"
        => /\ items' = items
           /\ tags' = tags
           /\ \A j \in Slots \ {last'.inst} : cache'[j] = cache[j]]_vars

C4_Witness ==
    /\ last.op = "set"
    /\ items # {}
    /\ \E j \in Slots \ {last.inst} :
          /\ inst[j] # NoInstance
          /\ HasField(inst[j].cls)
          /\ cache[j] # cache[last.inst]
    /\ parse_tag_input(cache[last.inst]) # PersistedTags(LastInst)

\* C5: right after the construction of an instance of a model carrying the
\* field, the cache is the string form of the persisted tags when the
\* instance has a pk, and the value set at construction when it has none.
C5_ConstructLoadsPersisted ==
    (last.op = "init" /\ HasField(LastInst.cls))
        => cache[last.inst] =
              (IF LastInst.pk # NonePk
               THEN edit_string_for_tags(PersistedTags(LastInst))
               ELSE Stored(last.arg))

\* C6: _is_sender(c) is True exactly when c is the declaring class or
\* reaches it through any of its bases, whatever was called before.
C6_IsSenderIsSubclass ==
    last.op = "is_sender" => last.arg.ret = issubclass(last.arg.cls, cls)

C8_ClassAssignRaises ==
    [][last'.op = "class_set"
        => /\ last'.arg = "AttributeError"
           /\ UNCHANGED <<inst, cache, items, tags, senders, not_senders>>]_vars

C8_Witness ==
    /\ last.op = "class_set"
    /\ last.arg = "AttributeError"
    /\ items # {}
    /\ \E i \in Slots : inst[i] # NoInstance /\ cache[i] # None

\* the target and the tag a call names, positionally or by keyword
TargetOf(a) ==
    IF a.queryset_or_model # NoClass THEN a.queryset_or_model
    ELSE a.kwargs.queryset_or_model
TagOf(a) == IF a.tag # None THEN a.tag ELSE a.kwargs.tag

C10_MissingArgument ==
    last.op = "tagged_object_list"
        => /\ TargetOf(last.arg) = NoClass
                => /\ last.out.raised = "AttributeError"
                   /\ last.out.msg = "must be called with a queryset or a model"
                   /\ last.out.calls = <<>>
           /\ (TargetOf(last.arg) # NoClass /\ TagOf(last.arg) = None)
                => /\ last.out.raised = "AttributeError"
                   /\ last.out.msg = "must be called with a tag"
                   /\ last.out.calls = <<>>

C10_Witness ==
    /\ last.op = "tagged_object_list"
    /\ TargetOf(last.arg) = NoClass
    /\ TagOf(last.arg) = None
    /\ last.out.raised = "AttributeError"
    /\ tags # {}

\* the extra_context a call supplies ({} when it supplies none)
GivenContext(a) ==
    IF Has(a.kwargs, "extra_context") THEN a.kwargs.extra_context ELSE EmptyContext

\* a call that names a target and a tag that resolves
ResolvedCall ==
    /\ last.op = "tagged_object_list"
    /\ TargetOf(last.arg) # NoClass
    /\ TagOf(last.arg) # None
    /\ get_tag(TagOf(last.arg)) # None

\* the renderer is called once, with the objects of the target that bear the tag
RenderedOnce ==
    /\ last.out.raised = "none"
    /\ Cardinality({k \in 1..Len(last.out.calls) : last.out.calls[k] = "object_list"}) = 1
    /\ last.out.queryset =
          {o \in 1..MaxObj :
              <<ContentType(TargetOf(last.arg)), o, TagOf(last.arg)>> \in items}
    /\ Has(last.out.kwargs, "extra_context")
    /\ Has(last.out.kwargs.extra_context, "tag")
    /\ last.out.kwargs.extra_context.tag = get_tag(TagOf(last.arg))

RelatedComputed ==
    related_for_model(get_tag(TagOf(last.arg)), TargetOf(last.arg),
                      last.arg.related_tag_counts)

\* C11 (as stated): for a tag that resolves the renderer is called once with
\* the tagged objects of the target and a context holding the tag under
\* 'tag', every entry of the supplied extra context, and 'related_tags' as
\* computed exactly when the related_tags flag is set.
C11_ContextKeepsEveryEntry ==
    ResolvedCall
        => /\ RenderedOnce
           /\ LET ctx == last.out.kwargs.extra_context
                  given == GivenContext(last.arg)
              IN  /\ \A k \in given.keys : k \in ctx.keys /\ ctx[k] = given[k]
                  /\ last.arg.related_tags
                        <=> ("related_tags" \in ctx.keys
                             /\ ctx.related_tags = RelatedComputed)

\* C11 (amended): as above, but of the supplied extra context the entries
\* kept are those under keys other than 'tag' and, when the flag is set,
\* 'related_tags', which the view's own entries replace; with the flag not
\* set 'related_tags' is in the context only as the caller supplied it.
C11_ContextKeepsOtherEntries ==
    ResolvedCall
        => /\ RenderedOnce
           /\ LET ctx == last.out.kwargs.extra_context
                  given == GivenContext(last.arg)
                  own == {"tag"} \cup (IF last.arg.related_tags
                                       THEN {"related_tags"} ELSE {})
              IN  /\ ctx.keys = given.keys \cup own
                  /\ \A k \in given.keys \ own : ctx[k] = given[k]
                  /\ last.arg.related_tags => ctx.related_tags = RelatedComputed

C11_Witness ==
    /\ ResolvedCall
    /\ last.arg.related_tags
    /\ RelatedComputed # {}
    /\ last.out.queryset # {}
    /\ GivenContext(last.arg).keys = {"tag"}
    /\ last.out.kwargs.extra_context.tag # GivenContext(last.arg).tag

TagInfo == last.out.tag_info

\* the objects of a model that hold a tag
Holders(model, tag) ==
    {o \in objects(model) : <<ContentType(model), o, tag>> \in items}

C13_OrderedAndSampled ==
    last.op = "tags_for_object"
        => /\ \A j, k \in 1..Len(TagInfo) :
                  j < k => TagInfo[j].count >= TagInfo[k].count
           /\ \A k \in 1..Len(TagInfo) : Len(TagInfo[k].items) <= 5

\* a tag held by more than 5 objects, listed before a less used one
C13_Witness ==
    /\ last.op = "tags_for_object"
    /\ Len(TagInfo) = 2
    /\ TagInfo[1].count > 5
    /\ Len(TagInfo[1].items) = 5
    /\ TagInfo[2].count < TagInfo[1].count

\* C14: the save of an instance whose class is neither the declaring class
\* nor a descendant of it changes no persisted association, no Tag row and
\* no tag cache.
C14_UnrelatedSaveChangesNothing ==
    [][(last'.op = "save" /\ ~issubclass(inst'[last'.inst].cls, cls))
          => (items' = items /\ tags' = tags /\ cache' = cache)]_vars

\* an unrelated instance is saved while the object of the declaring class
\* with the same primary key has persisted tags and an instance holds a cache
C14_Witness ==
    /\ last.op = "save"
    /\ ~issubclass(LastInst.cls, cls)
    /\ last.arg = FALSE
    /\ \E a \in items : a[2] = LastInst.pk
    /\ \E j \in Slots : cache[j] # None /\ cache[j] # <<>>

\* the associations the tag store holds for an object
AssociationsOf(obj, store) ==
    {a \in store : a[1] = ContentType(obj.cls) /\ a[2] = obj.pk}

\* C15 (as stated): a save or a delete of one instance leaves the
\* associations of every other object (another class or another primary key)
\* as they were.
C15_OthersUnchanged ==
    [][(last'.op \in {"save", "delete"})
          => \A j \in Slots :
                (/\ inst[j] # NoInstance
                 /\ inst[j].pk # NonePk
                 /\ \/ inst[j].cls # inst[last'.inst].cls
                    \/ inst[j].pk # (IF last'.op = "save"
                                     THEN inst'[last'.inst].pk
                                     ELSE inst[last'.inst].pk))
                => AssociationsOf(inst[j], items') = AssociationsOf(inst[j], items)]_vars

\* C16 (as stated): the save that directly follows the construction of a
\* persisted instance of a class with the field leaves the tags persisted
\* for the instance as they were.
C16_LoadThenSaveIsIdentity ==
    [][(/\ last.op = "init"
        /\ last'.op = "save"
        /\ last'.inst = last.inst
        /\ inst[last.inst].pk # NonePk
        /\ HasField(inst[last.inst].cls))
          => {a \in items' : a[1] = _get_ctype /\ a[2] = inst[last.inst].pk}
               = {a \in items : a[1] = _get_ctype /\ a[2] = inst[last.inst].pk}]_vars

NoRepeats(s) == \A j, k \in 1..Len(s) : s[j] = s[k] => j = k

\* C17: senders and not_senders are disjoint and hold no class twice, every
\* class in senders descends from the declaring class, and no call changes
\* the answer of _is_sender for any class (a repeated call answers as the
\* first call did).
C17_MemoConsistent ==
    /\ [](/\ Range(senders) \cap Range(not_senders) = {}
          /\ NoRepeats(senders)
          /\ NoRepeats(not_senders)
          /\ \A c \in Range(senders) : issubclass(c, cls))
    /\ [][\A c \in Classes :
             _is_sender(c, NoClass, senders', not_senders').ret
                = _is_sender(c, NoClass, senders, not_senders).ret]_vars

\* both memo collections are in use and the call answered from the memo
C17_Witness ==
    /\ last.op = "is_sender"
    /\ Len(senders) >= 2
    /\ Len(not_senders) >= 2
    /\ \/ InSeq(last.arg.cls, senders) /\ last.arg.ret
       \/ InSeq(last.arg.cls, not_senders) /\ ~last.arg.ret

====
